---- MODULE Spec2Model ----
(***************************************************************************)
(* A model of f1_dashboard.py: the eight cached CSV loaders, the           *)
(* required-file check, the sidebar season filter and navigation, the      *)
(* overview metrics and the five phase sections, as one Streamlit script   *)
(* run that is re-executed top to bottom on every widget interaction.      *)
(*                                                                         *)
(* Tables are sequences of records (rows).  Strings of the data (circuit   *)
(* names, countries, constructor names) are small integer codes, ordered   *)
(* as the strings are ordered.  Pit-stop durations are whole seconds and   *)
(* millisecond cells are whole multiples of 1000, so that x / 1000 is      *)
(* exact.                                                                  *)
(***************************************************************************)
EXTENDS Integers, Sequences, FiniteSets, TLC

VARIABLES
    csv,                 \* the eight files: [readable, ...columns flags..., rows]
    cache,               \* st.cache_data: loader name -> cached return value
    circuits, races, pit_stops, constructors, results, qualifying, drivers,
    lap_times,           \* the module-level tables of one run (None when a load failed)
    races_with_circuits, \* races left-merged with circuits
    session,             \* widget state kept by Streamlit between runs
    selected_years, dashboard_section,
    filtered_races, filtered_races_ids,
    sidebar,             \* what the sidebar shows: its controls and the data status
    view,                \* what the main area shows, section by section
    notices,             \* st.error / st.warning / st.info messages of the run
    top,                 \* result of a top-N selection (SpecTopN only)
    pc                   \* position of the script run

vars == <<csv, cache, circuits, races, pit_stops, constructors, results,
          qualifying, drivers, lap_times, races_with_circuits, session,
          selected_years, dashboard_section, filtered_races,
          filtered_races_ids, sidebar, view, notices, top, pc>>

tables == <<circuits, races, pit_stops, constructors, results, qualifying,
            drivers, lap_times>>

(***************************************************************************)
(* Values                                                                  *)
(***************************************************************************)
\* pandas NaN: a missing cell, and what errors='coerce' makes of an unparseable one
NA == -1000000
\* a CSV cell whose text is not a number (the "\N" of the Ergast files)
Unparseable == NA - 1
\* Python None, returned by a loader whose try block raised
None == << [none |-> TRUE] >>
\* a part of the page the run has not rendered
Blank == [blank |-> TRUE]
\* the "N/A" shown by an overview metric whose table is None
NotAvailable == NA - 2

isna(v) == v = NA
notna(v) == v # NA

\* pd.to_numeric(column, errors='coerce') on one cell
to_numeric(v) == IF v = Unparseable THEN NA ELSE v

Range(s) == {s[i] : i \in DOMAIN s}
Min(a, b) == IF a <= b THEN a ELSE b

RECURSIVE SumSeq(_)
SumSeq(s) == IF s = <<>> THEN 0 ELSE Head(s) + SumSeq(Tail(s))

RECURSIVE FlattenSeq(_)
FlattenSeq(ss) == IF ss = <<>> THEN <<>> ELSE Head(ss) \o FlattenSeq(Tail(ss))

\* df[col] as a sequence of cells
Column(df, col) == [i \in DOMAIN df |-> df[i][col]]
\* df[col].unique(): the distinct values of a column (NaN included)
unique(df, col) == {df[i][col] : i \in DOMAIN df}
\* df[col].nunique(): the number of distinct non-missing values
nunique(df, col) == Cardinality(unique(df, col) \ {NA})
\* df[df[col].isin(values)]
isin(df, col, values) == SelectSeq(df, LAMBDA r : r[col] \in values)
\* df.dropna(subset=cols)
dropna(df, cols) == SelectSeq(df, LAMBDA r : \A c \in cols : notna(r[c]))
\* df.head(n)
head(df, n) == SubSeq(df, 1, Min(n, Len(df)))
\* skipna sum of a column
sum(df, col) == SumSeq(Column(dropna(df, {col}), col))

(***************************************************************************)
(* The dataframe operations the script uses                                *)
(***************************************************************************)
\* sort order of sort_values / nlargest / nsmallest: a strictly before b;
\* a missing value sorts last in either direction (na_position='last')
Precedes(a, b, ascending) ==
    /\ notna(a)
    /\ \/ isna(b)
       \/ IF ascending THEN a < b ELSE a > b

RECURSIVE InsertSorted(_, _, _, _)
InsertSorted(s, r, col, ascending) ==
    IF s = <<>> THEN <<r>>
    ELSE IF Precedes(r[col], Head(s)[col], ascending) THEN <<r>> \o s
    ELSE <<Head(s)>> \o InsertSorted(Tail(s), r, col, ascending)

sort_values_unsorted(df, col, ascending) == df

\* df.sort_values(col, ascending=...): rows of equal key keep their input order
RECURSIVE sort_values(_, _, _)
sort_values(df, col, ascending) ==
    IF df = <<>> THEN <<>>
    ELSE InsertSorted(sort_values(SubSeq(df, 1, Len(df) - 1), col, ascending),
                      df[Len(df)], col, ascending)

\* df.nlargest(n, col) and df.nsmallest(n, col), keep='first'
nlargest(df, n, col) == head(sort_values(df, col, FALSE), n)
nsmallest(df, n, col) == head(sort_values(df, col, TRUE), n)

RECURSIVE SortedSeq(_)
SortedSeq(S) ==
    IF S = {} THEN <<>>
    ELSE LET m == CHOOSE x \in S : \A y \in S : x <= y
         IN  <<m>> \o SortedSeq(S \ {m})

\* df.groupby(col).size().reset_index(name=name): one row per non-missing
\* key, in key order
groupby_size(df, col, name) ==
    LET keys == SortedSeq(unique(df, col) \ {NA})
    IN  [i \in DOMAIN keys |->
            (col :> keys[i]) @@ (name :> Len(isin(df, col, {keys[i]})))]

\* df.groupby(col)[val].sum().reset_index()
groupby_sum(df, col, val) ==
    LET keys == SortedSeq(unique(df, col) \ {NA})
    IN  [i \in DOMAIN keys |->
            (col :> keys[i]) @@ (val :> sum(isin(df, col, {keys[i]}), val))]

\* left.merge(right[...], on=on, how=how); cols maps each column the merge
\* adds to the column of right it comes from (after suffixing)
merge(left, right, on, how, cols) ==
    FlattenSeq([i \in DOMAIN left |->
        LET l == left[i]
            m == SelectSeq(right, LAMBDA r : \A k \in on : r[k] = l[k])
        IN  IF m = <<>>
            THEN IF how = "left"
                 THEN << l @@ [c \in DOMAIN cols |-> NA] >>
                 ELSE <<>>
            ELSE [j \in DOMAIN m |-> l @@ [c \in DOMAIN cols |-> m[j][cols[c]]]]])

(***************************************************************************)
(* The loaders.  f.readable is FALSE when pd.read_csv or a later step of   *)
(* the try block raises (file missing, required column missing).           *)
(***************************************************************************)
load_circuits(f) ==
    IF ~f.readable THEN None ELSE dropna(f.rows, {"lat", "lng"})

load_races(f) ==
    IF ~f.readable THEN None ELSE f.rows

\* pit_stops['milliseconds'] / 1000
div1000(ms) == IF isna(ms) THEN NA ELSE ms \div 1000

DeriveDurationAtHalf(f, missing) ==
    /\ f.has_milliseconds
    /\ \/ ~f.has_duration
       \/ 2 * missing >= Len(f.rows)

\* the condition of line 74, evaluated inside "if 'milliseconds' in columns"
DeriveDuration(f, missing) ==
    /\ f.has_milliseconds
    /\ \/ ~f.has_duration
       \/ 2 * missing > Len(f.rows)

load_pit_stops(f) ==
    IF ~f.readable THEN None
    ELSE
    LET n  == Len(f.rows)
        d1 == [i \in 1..n |->
                 IF f.has_duration
                 THEN [f.rows[i] EXCEPT !.duration = to_numeric(@)]
                 ELSE [f.rows[i] EXCEPT !.duration = NA]]
        d2 == [i \in 1..n |->
                 IF f.has_milliseconds
                 THEN [d1[i] EXCEPT !.milliseconds = to_numeric(@)]
                 ELSE [d1[i] EXCEPT !.milliseconds = NA]]
        missing == Cardinality({i \in 1..n : isna(d2[i].duration)})
        d3 == [i \in 1..n |->
                 IF DeriveDuration(f, missing)
                 THEN [d2[i] EXCEPT !.duration = div1000(d2[i].milliseconds)]
                 ELSE d2[i]]
        d4 == [i \in 1..n |->
                 [d3[i] EXCEPT !.lap = to_numeric(@), !.stop = to_numeric(@)]]
    IN  IF ~f.has_duration /\ ~f.has_milliseconds
        THEN None      \* dropna(subset=['duration']) raises KeyError
        ELSE dropna(d4, {"duration"})

load_constructors(f) ==
    IF ~f.readable THEN None ELSE f.rows

load_results(f) ==
    IF ~f.readable THEN None
    ELSE [i \in DOMAIN f.rows |->
            [f.rows[i] EXCEPT
                !.position = to_numeric(@),
                !.points = IF isna(to_numeric(@)) THEN 0 ELSE to_numeric(@)]]

load_qualifying_empty(f) ==
    IF ~f.readable THEN <<>>
    ELSE [i \in DOMAIN f.rows |-> [f.rows[i] EXCEPT !.position = to_numeric(@)]]

load_qualifying(f) ==
    IF ~f.readable THEN None
    ELSE [i \in DOMAIN f.rows |-> [f.rows[i] EXCEPT !.position = to_numeric(@)]]

load_drivers(f) ==
    IF ~f.readable THEN None
    ELSE [i \in DOMAIN f.rows |->
            f.rows[i] @@ [fullname |-> <<f.rows[i].forename, f.rows[i].surname>>]]

load_lap_times(f) ==
    IF ~f.readable THEN None
    ELSE [i \in DOMAIN f.rows |->
            [f.rows[i] EXCEPT !.milliseconds = to_numeric(@),
                              !.lap = to_numeric(@),
                              !.position = to_numeric(@)]]

(***************************************************************************)
(* The script's derived tables, as functions of the run's variables        *)
(***************************************************************************)
N == 10
MaxDuration == 300

\* df.sort_values(col, ascending=False).head(10)
SortHead(df, col) == head(sort_values(df, col, FALSE), N)

Sections == <<"Overview", "Phase 1: Circuits", "Phase 2: Pit Stops",
              "Phase 3: Performance", "Phase 4: Qualifying",
              "Phase 5: Lap Analysis">>

\* sorted(races['year'].unique(), reverse=True)
RECURSIVE SortedDesc(_)
SortedDesc(S) ==
    IF S = {} THEN <<>>
    ELSE LET m == CHOOSE x \in S : \A y \in S : x >= y
         IN  <<m>> \o SortedDesc(S \ {m})

available_years == SortedDesc(unique(races, "year"))

\* the multiselect's default: the latest season, or nothing
default_years ==
    IF Len(available_years) > 0 THEN {available_years[1]} ELSE {}

FilteredRacesUnfiltered(years) == races_with_circuits

\* lines 172-177, the rows
FilteredRaces(years) ==
    IF years # {} THEN isin(races_with_circuits, "year", years)
    ELSE races_with_circuits

FilteredRacesIdsUnfiltered(years) == unique(races, "raceid")

\* 'raceid' in races.columns, and so in filtered_races.columns: load_races
\* and the merge of line 149 keep the columns of races.csv
raceid_in_columns == csv.races.has_raceid

\* lines 172-177, the race identifiers
FilteredRacesIds(years) ==
    IF years # {}
    THEN IF raceid_in_columns THEN unique(FilteredRaces(years), "raceid") ELSE {}
    ELSE IF raceid_in_columns THEN unique(races, "raceid") ELSE {}

\* the sidebar's "Data Status" lines
DataStatus ==
    [circuits     |-> IF circuits # None THEN "ok" ELSE "error",
     races        |-> IF races # None THEN "ok" ELSE "error",
     pit_stops    |-> IF pit_stops # None THEN "ok" ELSE "error",
     constructors |-> IF constructors # None THEN "ok" ELSE "warning",
     results      |-> IF results # None THEN "ok" ELSE "error",
     qualifying   |-> IF qualifying # None THEN "ok" ELSE "warning",
     drivers      |-> IF drivers # None THEN "ok" ELSE "warning",
     lap_times    |-> IF lap_times # None THEN "ok" ELSE "warning"]

\* lines 205-222
OverviewMetrics ==
    [circuits  |-> Len(circuits),
     races     |-> Len(filtered_races),
     pit_stops |-> IF pit_stops # None
                   THEN Len(isin(pit_stops, "raceid", filtered_races_ids))
                   ELSE NotAvailable,
     results   |-> IF results # None
                   THEN Len(isin(results, "raceid", filtered_races_ids))
                   ELSE NotAvailable,
     countries |-> nunique(circuits, "country")]

\* Phase 1
races_per_circuit == groupby_size(filtered_races, "circuitid", "race_count")
map_data ==
    LET m == merge(circuits, races_per_circuit, {"circuitid"}, "left",
                   [race_count |-> "race_count"])
    IN  [i \in DOMAIN m |->
            [m[i] EXCEPT !.race_count = IF isna(@) THEN 0 ELSE @]]
top_circuits ==
    SortHead(groupby_size(filtered_races, "name_circuit", "races"), "races")
races_by_country ==
    SortHead(groupby_size(filtered_races, "country", "races"), "races")

filtered_pit_stops_of_any_race ==
    SelectSeq(pit_stops, LAMBDA r :
        /\ notna(r.duration)
        /\ r.duration > 0
        /\ r.duration < MaxDuration)

filtered_pit_stops_no_upper ==
    SelectSeq(pit_stops, LAMBDA r :
        /\ r.raceid \in filtered_races_ids
        /\ notna(r.duration)
        /\ r.duration > 0)

\* Phase 2
filtered_pit_stops ==
    SelectSeq(pit_stops, LAMBDA r :
        /\ r.raceid \in filtered_races_ids
        /\ notna(r.duration)
        /\ r.duration > 0
        /\ r.duration < MaxDuration)
stop_counts == groupby_size(filtered_pit_stops, "stop", "count")
fastest == nsmallest(filtered_pit_stops, N, "duration")

\* Series.mean(), Series.min(), Series.max() of the non-missing cells, as
\* <<sum, count>> and as NA when there is none
mean(df, col) ==
    LET d == dropna(df, {col})
    IN  IF d = <<>> THEN NA ELSE <<sum(d, col), Len(d)>>
min(df, col) ==
    LET v == unique(df, col) \ {NA}
    IN  IF v = {} THEN NA ELSE CHOOSE x \in v : \A y \in v : x <= y
max(df, col) ==
    LET v == unique(df, col) \ {NA}
    IN  IF v = {} THEN NA ELSE CHOOSE x \in v : \A y \in v : x >= y

\* Phase 3
filtered_results == isin(results, "raceid", filtered_races_ids)
perf_data ==
    merge(merge(merge(filtered_results, races, {"raceid"}, "left",
                      [circuitid |-> "circuitid", year |-> "year"]),
                constructors, {"constructorid"}, "left",
                [name_constructor |-> "name"]),
          circuits, {"circuitid"}, "left", [name_circuit |-> "name"])
top_const ==
    SortHead(groupby_sum(perf_data, "name_constructor", "points"), "points")

\* Phase 4
filtered_quali == isin(qualifying, "raceid", filtered_races_ids)
quali_race ==
    LET q == [i \in DOMAIN filtered_quali |->
                [raceid         |-> filtered_quali[i].raceid,
                 driverid       |-> filtered_quali[i].driverid,
                 position_quali |-> filtered_quali[i].position]]
        m == merge(q, filtered_results, {"raceid", "driverid"}, "inner",
                   [position_race |-> "position", points |-> "points"])
    IN  [i \in DOMAIN m |->
            m[i] @@ [position_change |->
                        IF isna(m[i].position_quali) \/ isna(m[i].position_race)
                        THEN NA
                        ELSE m[i].position_quali - m[i].position_race]]
top_gainers == nlargest(quali_race, N, "position_change")

\* Phase 5
filtered_laps ==
    LET l == isin(lap_times, "raceid", filtered_races_ids)
    IN  [i \in DOMAIN l |-> l[i] @@ [time_seconds |-> div1000(l[i].milliseconds)]]
fastest_laps == nsmallest(filtered_laps, N, "time_seconds")

(***************************************************************************)
(* The script run                                                          *)
(***************************************************************************)
\* no entry yet in st.cache_data for a loader
NoEntry == << [no_entry |-> TRUE] >>

EmptyView ==
    [header |-> Blank, overview |-> Blank, phase1 |-> Blank, phase2 |-> Blank,
     phase3 |-> Blank, phase4 |-> Blank, phase5 |-> Blank, footer |-> Blank]

EmptySidebar == [controls |-> {}, status |-> Blank]

\* @st.cache_data: the loader runs on the first call only
cached(name, value) == IF cache[name] = NoEntry THEN value ELSE cache[name]

\* lines 135-142
LoadData ==
    /\ pc = "load"
    /\ circuits' = cached("circuits", load_circuits(csv.circuits))
    /\ races' = cached("races", load_races(csv.races))
    /\ pit_stops' = cached("pit_stops", load_pit_stops(csv.pit_stops))
    /\ constructors' = cached("constructors", load_constructors(csv.constructors))
    /\ results' = cached("results", load_results(csv.results))
    /\ qualifying' = cached("qualifying", load_qualifying(csv.qualifying))
    /\ drivers' = cached("drivers", load_drivers(csv.drivers))
    /\ lap_times' = cached("lap_times", load_lap_times(csv.lap_times))
    /\ cache' = [circuits |-> circuits', races |-> races',
                 pit_stops |-> pit_stops', constructors |-> constructors',
                 results |-> results', qualifying |-> qualifying',
                 drivers |-> drivers', lap_times |-> lap_times']
    /\ pc' = "check"
    /\ UNCHANGED <<csv, races_with_circuits, session, selected_years,
                   dashboard_section, filtered_races, filtered_races_ids,
                   sidebar, view, notices, top>>

\* the condition of line 144
RequiredMissing == circuits = None \/ races = None

StopOnMissingWithoutStop ==
    /\ pc = "check"
    /\ RequiredMissing
    /\ notices' = notices \cup {[kind |-> "error", about |-> "required"]}
    /\ pc' = "sidebar"
    /\ UNCHANGED <<csv, cache, tables, races_with_circuits, session,
                   selected_years, dashboard_section, filtered_races,
                   filtered_races_ids, sidebar, view, top>>

\* lines 144-146: st.error and st.stop()
StopOnMissing ==
    /\ pc = "check"
    /\ RequiredMissing
    /\ notices' = notices \cup {[kind |-> "error", about |-> "required"]}
    /\ pc' = "stopped"
    /\ UNCHANGED <<csv, cache, tables, races_with_circuits, session,
                   selected_years, dashboard_section, filtered_races,
                   filtered_races_ids, sidebar, view, top>>

\* lines 149-156: the merge and the page header
MergeAndHeader ==
    /\ pc = "check"
    /\ ~RequiredMissing
    /\ races_with_circuits' =
           merge(races, circuits, {"circuitid"}, "left",
                 [name_circuit |-> "name", country |-> "country",
                  lat |-> "lat", lng |-> "lng"])
    /\ view' = [view EXCEPT !.header = [title |-> TRUE]]
    /\ pc' = "sidebar"
    /\ UNCHANGED <<csv, cache, tables, session, selected_years,
                   dashboard_section, filtered_races, filtered_races_ids,
                   sidebar, notices, top>>

\* lines 161-197: the season multiselect, the filter, the navigation radio
\* and the data status
Sidebar ==
    /\ pc = "sidebar"
    /\ selected_years' =
           IF session.touched THEN session.years ELSE default_years
    /\ filtered_races' = FilteredRaces(selected_years')
    /\ filtered_races_ids' = FilteredRacesIds(selected_years')
    /\ dashboard_section' = session.section
    /\ session' = [session EXCEPT !.years = selected_years']
    /\ sidebar' = [controls |-> {"Select Season(s):", "Navigate Dashboard:"},
                   status |-> DataStatus]
    /\ pc' = "overview"
    /\ UNCHANGED <<csv, cache, tables, races_with_circuits, view, notices, top>>

\* lines 202-224
Overview ==
    /\ pc = "overview"
    /\ view' = [view EXCEPT !.overview = OverviewMetrics]
    /\ pc' = "phase1"
    /\ UNCHANGED <<csv, cache, tables, races_with_circuits, session,
                   selected_years, dashboard_section, filtered_races,
                   filtered_races_ids, sidebar, notices, top>>

Frame == <<csv, cache, tables, races_with_circuits, session, selected_years,
           dashboard_section, filtered_races, filtered_races_ids, sidebar, top>>

\* Frame without the three tables a phase derives a frame from and then
\* assigns a column on
FrameOfViews == <<csv, cache, races_with_circuits, session, selected_years,
                  dashboard_section, filtered_races, filtered_races_ids,
                  sidebar, top>>

circuits_aliased_to_map_data == map_data

\* lines 234-235: map_data is the new frame circuits.merge returns, so the
\* assignment to map_data['race_count'] leaves circuits as it was loaded
circuits_after_map_data == circuits

\* lines 371-381: quali_race is the new frame filtered_quali.merge returns,
\* so the assignment to quali_race['position_change'] leaves qualifying as
\* it was loaded
qualifying_after_quali_race == qualifying

\* lines 443-447: filtered_laps is a .copy() of the selected rows, so the
\* assignment to filtered_laps['time_seconds'] leaves lap_times as it was
\* loaded
lap_times_after_filtered_laps == lap_times

\* lines 229-257
Phase1Guard == dashboard_section \in {"Overview", "Phase 1: Circuits"}
Phase1 ==
    /\ pc = "phase1"
    /\ view' = IF Phase1Guard
               THEN [view EXCEPT !.phase1 =
                        [map_data |-> map_data,
                         top_circuits |-> top_circuits,
                         races_by_country |-> races_by_country]]
               ELSE view
    /\ circuits' = IF Phase1Guard THEN circuits_after_map_data ELSE circuits
    /\ pc' = "phase2"
    /\ UNCHANGED <<FrameOfViews, races, pit_stops, constructors, results,
                   qualifying, drivers, lap_times, notices>>

\* lines 262-304
Phase2Guard ==
    /\ dashboard_section \in {"Overview", "Phase 2: Pit Stops"}
    /\ pit_stops # None
Phase2Body ==
    [avg_pit_stop  |-> mean(filtered_pit_stops, "duration"),
     fastest_stop  |-> min(filtered_pit_stops, "duration"),
     total_stops   |-> Len(filtered_pit_stops),
     stops_per_race |-> <<Len(filtered_pit_stops), Cardinality(filtered_races_ids)>>,
     stop_counts   |-> stop_counts,
     fastest       |-> fastest]
Phase2 ==
    /\ pc = "phase2"
    /\ IF ~Phase2Guard
       THEN /\ pc' = "phase3"
            /\ UNCHANGED <<view, notices>>
       ELSE IF Len(filtered_pit_stops) = 0
       THEN /\ view' = [view EXCEPT !.phase2 = [header |-> TRUE, body |-> Blank]]
            /\ pc' = "phase3"
            /\ UNCHANGED notices
       ELSE IF Cardinality(filtered_races_ids) = 0
       THEN \* line 281 raises ZeroDivisionError
            /\ view' = [view EXCEPT !.phase2 = [header |-> TRUE, body |-> Blank]]
            /\ notices' = notices \cup {[kind |-> "exception", about |-> "phase2"]}
            /\ pc' = "error"
       ELSE /\ view' = [view EXCEPT !.phase2 = [header |-> TRUE, body |-> Phase2Body]]
            /\ pc' = "phase3"
            /\ UNCHANGED notices
    /\ UNCHANGED Frame

\* lines 309-354
Phase3Guard ==
    /\ dashboard_section \in {"Overview", "Phase 3: Performance"}
    /\ results # None
Phase3Body ==
    [results   |-> Len(filtered_results),
     points    |-> sum(filtered_results, "points"),
     winners   |-> nunique(SelectSeq(filtered_results, LAMBDA r : r.position = 1),
                           "driverid"),
     teams     |-> nunique(filtered_results, "constructorid"),
     top_const |-> top_const]
Phase3 ==
    /\ pc = "phase3"
    /\ IF ~Phase3Guard
       THEN UNCHANGED <<view, notices>>
       ELSE IF constructors = None
       THEN /\ view' = [view EXCEPT !.phase3 = [header |-> TRUE, body |-> Blank]]
            /\ notices' = notices \cup {[kind |-> "warning", about |-> "constructors"]}
       ELSE /\ view' = [view EXCEPT !.phase3 =
                          [header |-> TRUE,
                           body |-> IF Len(filtered_results) > 0
                                    THEN Phase3Body ELSE Blank]]
            /\ UNCHANGED notices
    /\ pc' = "phase4"
    /\ UNCHANGED Frame

\* lines 359-424
Phase4Guard ==
    /\ dashboard_section \in {"Overview", "Phase 4: Qualifying"}
    /\ qualifying # None
    /\ results # None
Phase4Body ==
    [avg_change  |-> mean(quali_race, "position_change"),
     best_gain   |-> max(quali_race, "position_change"),
     worst_loss  |-> min(quali_race, "position_change"),
     improvers   |-> <<Len(SelectSeq(quali_race, LAMBDA r :
                            notna(r.position_change) /\ r.position_change > 0)),
                       Len(quali_race)>>,
     top_gainers |-> top_gainers]
Phase4Warnings ==
    IF drivers = None THEN {[kind |-> "warning", about |-> "drivers"]} ELSE {}
Phase4 ==
    /\ pc = "phase4"
    /\ IF ~Phase4Guard
       THEN /\ pc' = "phase5"
            /\ UNCHANGED <<view, notices>>
       ELSE IF ~(Len(filtered_quali) > 0 /\ Len(filtered_results) > 0)
       THEN /\ view' = [view EXCEPT !.phase4 = [header |-> TRUE, body |-> Blank]]
            /\ notices' = notices \cup Phase4Warnings
            /\ pc' = "phase5"
       ELSE IF isna(max(quali_race, "position_change"))
       THEN \* line 387: int() of a missing maximum raises ValueError
            /\ view' = [view EXCEPT !.phase4 = [header |-> TRUE, body |-> Blank]]
            /\ notices' = notices \cup Phase4Warnings
                            \cup {[kind |-> "exception", about |-> "phase4"]}
            /\ pc' = "error"
       ELSE /\ view' = [view EXCEPT !.phase4 = [header |-> TRUE, body |-> Phase4Body]]
            /\ notices' = notices \cup Phase4Warnings
            /\ pc' = "phase5"
    /\ qualifying' =
           IF Phase4Guard /\ Len(filtered_quali) > 0 /\ Len(filtered_results) > 0
           THEN qualifying_after_quali_race ELSE qualifying
    /\ UNCHANGED <<FrameOfViews, circuits, races, pit_stops, constructors,
                   results, drivers, lap_times>>

\* lines 429-498
Phase5Guard == dashboard_section \in {"Overview", "Phase 5: Lap Analysis"}
Phase5Body ==
    [total_laps   |-> Len(filtered_laps),
     fastest_lap  |-> min(filtered_laps, "time_seconds"),
     avg_lap_time |-> mean(filtered_laps, "time_seconds"),
     drivers      |-> nunique(filtered_laps, "driverid"),
     fastest_laps |-> fastest_laps]
Phase5 ==
    /\ pc = "phase5"
    /\ IF ~Phase5Guard
       THEN UNCHANGED <<view, notices>>
       ELSE IF lap_times = None
       THEN /\ view' = [view EXCEPT !.phase5 = [header |-> TRUE, body |-> Blank]]
            /\ notices' = notices \cup {[kind |-> "warning", about |-> "lap_times"],
                                         [kind |-> "info", about |-> "lap_times"]}
       ELSE IF Len(filtered_laps) > 0
       THEN /\ view' = [view EXCEPT !.phase5 = [header |-> TRUE, body |-> Phase5Body]]
            /\ UNCHANGED notices
       ELSE /\ view' = [view EXCEPT !.phase5 = [header |-> TRUE, body |-> Blank]]
            /\ notices' = notices \cup {[kind |-> "info", about |-> "no_laps"]}
    /\ lap_times' =
           IF Phase5Guard /\ lap_times # None /\ Len(filtered_laps) > 0
           THEN lap_times_after_filtered_laps ELSE lap_times
    /\ pc' = "footer"
    /\ UNCHANGED <<FrameOfViews, circuits, races, pit_stops, constructors,
                   results, qualifying, drivers>>

\* lines 503-517
Footer ==
    /\ pc = "footer"
    /\ view' = [view EXCEPT !.footer = [text |-> TRUE]]
    /\ pc' = "done"
    /\ UNCHANGED <<Frame, notices>>

\* a run starts with an empty page and an empty namespace
FreshRun ==
    /\ circuits' = NoEntry /\ races' = NoEntry /\ pit_stops' = NoEntry
    /\ constructors' = NoEntry /\ results' = NoEntry /\ qualifying' = NoEntry
    /\ drivers' = NoEntry /\ lap_times' = NoEntry
    /\ races_with_circuits' = NoEntry
    /\ selected_years' = {} /\ dashboard_section' = "Overview"
    /\ filtered_races' = NoEntry /\ filtered_races_ids' = {}
    /\ view' = EmptyView /\ sidebar' = EmptySidebar /\ notices' = {}

\* The user changes the season multiselect or the navigation radio: Streamlit
\* re-executes the script from the top with the new widget values.
Interact ==
    /\ pc \in {"done", "error"}
    /\ \E years \in SUBSET Range(available_years), section \in Range(Sections) :
           session' = [touched |-> TRUE, years |-> years, section |-> section]
    /\ FreshRun
    /\ pc' = "load"
    /\ UNCHANGED <<csv, cache, top>>

(***************************************************************************)
(* The files the runs start from                                           *)
(***************************************************************************)
MaxRows == 2        \* rows of the table a family of files varies
MaxPitRows == 3     \* rows of pit_stops.csv under SpecLoad
MaxTopRows == 11    \* rows handed to a top-N selection under SpecTopN

Years == {2021, 2022}
FileNames == {"circuits", "races", "pit_stops", "constructors", "results",
              "qualifying", "drivers", "lap_times"}

SeqsUpTo(S, n) == UNION {[1..k -> S] : k \in 0..n}

BaseRows ==
    [circuits |->
        << [circuitid |-> 1, name |-> 1, country |-> 1, lat |-> 45, lng |-> 9],
           [circuitid |-> 2, name |-> 2, country |-> 2, lat |-> 50, lng |-> 5],
           [circuitid |-> 3, name |-> 3, country |-> 1, lat |-> NA, lng |-> 11] >>,
     races |->
        << [raceid |-> 1, year |-> 2021, circuitid |-> 1],
           [raceid |-> 2, year |-> 2022, circuitid |-> 2],
           [raceid |-> 3, year |-> 2022, circuitid |-> 1] >>,
     pit_stops |->
        << [raceid |-> 1, driverid |-> 1, stop |-> 1, lap |-> 10,
            duration |-> 2, milliseconds |-> 2000],
           [raceid |-> 2, driverid |-> 1, stop |-> 1, lap |-> 12,
            duration |-> 3, milliseconds |-> 3000],
           [raceid |-> 2, driverid |-> 2, stop |-> 2, lap |-> 30,
            duration |-> 400, milliseconds |-> 400000] >>,
     constructors |->
        << [constructorid |-> 1, name |-> 1],
           [constructorid |-> 2, name |-> 2] >>,
     results |->
        << [raceid |-> 1, driverid |-> 1, constructorid |-> 1,
            position |-> 1, points |-> 25],
           [raceid |-> 2, driverid |-> 1, constructorid |-> 2,
            position |-> 2, points |-> 18],
           [raceid |-> 2, driverid |-> 2, constructorid |-> 1,
            position |-> Unparseable, points |-> 0] >>,
     qualifying |->
        << [raceid |-> 1, driverid |-> 1, position |-> 2],
           [raceid |-> 2, driverid |-> 1, position |-> 1] >>,
     drivers |->
        << [driverid |-> 1, forename |-> 1, surname |-> 1],
           [driverid |-> 2, forename |-> 2, surname |-> 2] >>,
     lap_times |->
        << [raceid |-> 1, driverid |-> 1, lap |-> 1, position |-> 1,
            milliseconds |-> 90000],
           [raceid |-> 2, driverid |-> 1, lap |-> 1, position |-> 2,
            milliseconds |-> Unparseable] >>]

\* the eight files with the given rows; every load succeeds
Files(rows) ==
    [n \in FileNames |->
        IF n = "pit_stops"
        THEN [readable |-> TRUE, has_duration |-> TRUE,
              has_milliseconds |-> TRUE, rows |-> rows[n]]
        ELSE IF n = "races"
        THEN [readable |-> TRUE, has_raceid |-> TRUE, rows |-> rows[n]]
        ELSE [readable |-> TRUE, rows |-> rows[n]]]

\* any subset of the files missing or unreadable
FlagFiles ==
    {[n \in FileNames |-> [Files(BaseRows)[n] EXCEPT !.readable = n \in R]] :
        R \in SUBSET FileNames}

Vary(name, tablesOfRows) ==
    {Files([BaseRows EXCEPT ![name] = t]) : t \in tablesOfRows}

\* races.csv: identifiers unique (the row number), any season, a circuit
\* that exists, or a missing circuitid
RaceTables ==
    {[i \in DOMAIN t |-> [raceid |-> i, year |-> t[i][1], circuitid |-> t[i][2]]] :
        t \in SeqsUpTo(Years \X {1, 2, NA}, MaxRows)}

\* races.csv without a raceid column: every cell of the column is missing
RaceFilesWithoutId ==
    {[readable |-> TRUE, has_raceid |-> FALSE,
      rows |-> [i \in DOMAIN t |->
                  [raceid |-> NA, year |-> t[i], circuitid |-> 1]]] :
        t \in SeqsUpTo(Years, MaxRows)}

PitDurationTables ==
    {[i \in DOMAIN t |->
        [raceid |-> 1, driverid |-> 1, stop |-> 1, lap |-> 10,
         duration |-> t[i], milliseconds |-> 5000]] :
        t \in SeqsUpTo({Unparseable, -1, 0, 2, 299, 300}, MaxRows)}

PitStopTables ==
    {[i \in DOMAIN t |->
        [raceid |-> t[i][1], driverid |-> 1, stop |-> t[i][2], lap |-> 10,
         duration |-> 2, milliseconds |-> 2000]] :
        t \in SeqsUpTo({1, 2} \X {1, 2}, MaxRows)}

ResultTables ==
    {[i \in DOMAIN t |->
        [raceid |-> t[i][1], driverid |-> 1, constructorid |-> t[i][2],
         position |-> t[i][3], points |-> 10]] :
        t \in SeqsUpTo({1, 2} \X {1, NA} \X {1, Unparseable}, MaxRows)}

QualifyingTables ==
    {[i \in DOMAIN t |->
        [raceid |-> t[i][1], driverid |-> t[i][2], position |-> t[i][3]]] :
        t \in SeqsUpTo({1, 2} \X {1, NA} \X {2, Unparseable}, MaxRows)}

InputFiles ==
    FlagFiles
    \cup Vary("races", RaceTables)
    \cup {[Files(BaseRows) EXCEPT !.races = f] : f \in RaceFilesWithoutId}
    \cup Vary("pit_stops", PitDurationTables \cup PitStopTables)
    \cup Vary("results", ResultTables)
    \cup Vary("qualifying", QualifyingTables)

EmptyCache == [n \in FileNames |-> NoEntry]

InitRun ==
    /\ cache = EmptyCache
    /\ circuits = NoEntry /\ races = NoEntry /\ pit_stops = NoEntry
    /\ constructors = NoEntry /\ results = NoEntry /\ qualifying = NoEntry
    /\ drivers = NoEntry /\ lap_times = NoEntry
    /\ races_with_circuits = NoEntry
    /\ session = [touched |-> FALSE, years |-> {}, section |-> "Overview"]
    /\ selected_years = {} /\ dashboard_section = "Overview"
    /\ filtered_races = NoEntry /\ filtered_races_ids = {}
    /\ view = EmptyView /\ sidebar = EmptySidebar /\ notices = {}
    /\ pc = "load"

Init ==
    /\ csv \in InputFiles
    /\ InitRun
    /\ top = <<>>

Next ==
    \/ LoadData
    \/ StopOnMissing
    \/ MergeAndHeader
    \/ Sidebar
    \/ Overview
    \/ Phase1
    \/ Phase2
    \/ Phase3
    \/ Phase4
    \/ Phase5
    \/ Footer
    \/ Interact

Spec == Init /\ [][Next]_vars

(***************************************************************************)
(* load_pit_stops alone, over pit_stops.csv files with and without the     *)
(* duration and milliseconds columns                                       *)
(***************************************************************************)
PitFiles ==
    {[readable |-> rd, has_duration |-> hd, has_milliseconds |-> hm,
      rows |-> [i \in DOMAIN t |->
                  [raceid |-> 1, driverid |-> 1, stop |-> 1, lap |-> i,
                   duration |-> IF hd THEN t[i][1] ELSE NA,
                   milliseconds |-> IF hm THEN t[i][2] ELSE NA]]] :
        rd \in BOOLEAN, hd \in BOOLEAN, hm \in BOOLEAN,
        t \in SeqsUpTo({Unparseable, 2} \X {Unparseable, 3000}, MaxPitRows)}

InitLoad ==
    /\ \E f \in PitFiles : csv = [Files(BaseRows) EXCEPT !.pit_stops = f]
    /\ InitRun
    /\ top = <<>>

SpecLoad == InitLoad /\ [][LoadData]_vars

(***************************************************************************)
(* The three top-N forms of the script, over tables of up to MaxTopRows    *)
(* rows                                                                    *)
(***************************************************************************)
TopTables ==
    {[i \in DOMAIN t |-> [id |-> i, metric |-> t[i]]] :
        t \in SeqsUpTo({1, 2}, MaxTopRows) \cup SeqsUpTo({NA, 1}, MaxTopRows)}

InitTopN ==
    /\ csv = Files(BaseRows)
    /\ InitRun
    /\ \E df \in TopTables : top = [df |-> df, op |-> "none", out |-> <<>>]

\* .sort_values(metric, ascending=False).head(10): lines 245, 252, 342
TopSortHead ==
    /\ top.op = "none"
    /\ top' = [top EXCEPT !.op = "sort_head", !.out = SortHead(top.df, "metric")]
    /\ UNCHANGED <<csv, cache, tables, races_with_circuits, session,
                   selected_years, dashboard_section, filtered_races,
                   filtered_races_ids, sidebar, view, notices, pc>>

\* .nlargest(10, metric): line 418
TopLargest ==
    /\ top.op = "none"
    /\ top' = [top EXCEPT !.op = "nlargest", !.out = nlargest(top.df, N, "metric")]
    /\ UNCHANGED <<csv, cache, tables, races_with_circuits, session,
                   selected_years, dashboard_section, filtered_races,
                   filtered_races_ids, sidebar, view, notices, pc>>

\* .nsmallest(10, metric): lines 301, 489
TopSmallest ==
    /\ top.op = "none"
    /\ top' = [top EXCEPT !.op = "nsmallest", !.out = nsmallest(top.df, N, "metric")]
    /\ UNCHANGED <<csv, cache, tables, races_with_circuits, session,
                   selected_years, dashboard_section, filtered_races,
                   filtered_races_ids, sidebar, view, notices, pc>>

NextTopN == TopSortHead \/ TopLargest \/ TopSmallest

SpecTopN == InitTopN /\ [][NextTopN]_vars

(***************************************************************************)
(* Properties                                                              *)
(***************************************************************************)
\* the race identifiers of the races of the seasons S
SeasonRaceIds(S) == {races[i].raceid : i \in {j \in DOMAIN races : races[j].year \in S}}
AllRaceIds == {races[i].raceid : i \in DOMAIN races}
\* the number of rows of df whose race identifier is in ids
RowsOf(df, ids) == Cardinality({i \in DOMAIN df : df[i].raceid \in ids})

OverviewCounts(ids) ==
    /\ view.overview.races = RowsOf(races, ids)
    /\ pit_stops # None => view.overview.pit_stops = RowsOf(pit_stops, ids)
    /\ results # None => view.overview.results = RowsOf(results, ids)

\* C1 as stated: for every selection of seasons, the overview's race, pit-stop
\* and result counts are the numbers of rows of the races, pit_stops and
\* results tables whose race identifier is that of a race of a selected season.
C1_CountsOfSelectedSeasons ==
    view.overview # Blank => OverviewCounts(SeasonRaceIds(selected_years))

\* C1 amended: the same for every non-empty selection of seasons; with no
\* season selected no filter is applied and the three counts cover the rows
\* of all the races of the races table.  The races table has a raceid
\* column: without one its rows carry no race identifier to count by.
C1_CountsOfSelectedSeasonsOrAll ==
    (view.overview # Blank /\ raceid_in_columns) =>
        OverviewCounts(IF selected_years = {} THEN AllRaceIds
                       ELSE SeasonRaceIds(selected_years))

\* a run that selected only 2021 although 2022 is present, and counted fewer
\* races, pit stops and results than the tables hold
C1_Witness ==
    /\ pc = "done"
    /\ selected_years = {2021}
    /\ 2022 \in Range(available_years)
    /\ view.overview.races > 0
    /\ view.overview.races < Len(races)
    /\ pit_stops # None /\ view.overview.pit_stops > 0
    /\ view.overview.pit_stops < Len(pit_stops)
    /\ results # None /\ view.overview.results > 0
    /\ view.overview.results < Len(results)

\* C2: when load_circuits or load_races returned None the run shows the fatal
\* error and halts at st.stop(): the script never passes the check, nothing of
\* the sidebar, the header, the overview or a phase section is rendered, and
\* the halted run takes no further step, whatever the other six files are.
C2_RequiredFileHalts ==
    (pc # "load" /\ (circuits = None \/ races = None)) =>
        /\ pc \in {"check", "stopped"}
        /\ view = EmptyView
        /\ sidebar = EmptySidebar
        /\ pc = "stopped" =>
              /\ [kind |-> "error", about |-> "required"] \in notices
              /\ ~ENABLED Next

\* a halted run in which only circuits.csv failed to load
C2_Witness ==
    /\ pc = "stopped"
    /\ circuits = None
    /\ \A n \in FileNames \ {"circuits"} : csv[n].readable
    /\ pit_stops # None /\ lap_times # None

\* the loaded table of a file name
TableOf(n) ==
    CASE n = "circuits" -> circuits
      [] n = "races" -> races
      [] n = "pit_stops" -> pit_stops
      [] n = "constructors" -> constructors
      [] n = "results" -> results
      [] n = "qualifying" -> qualifying
      [] n = "drivers" -> drivers
      [] n = "lap_times" -> lap_times

OptionalInputs == {"pit_stops", "constructors", "qualifying", "drivers", "lap_times"}

\* the section that uses an optional input
SectionOf(n) ==
    CASE n = "pit_stops" -> "phase2"
      [] n = "constructors" -> "phase3"
      [] n = "qualifying" -> "phase4"
      [] n = "drivers" -> "phase4"
      [] n = "lap_times" -> "phase5"

NavigationOf(sec) ==
    CASE sec = "phase1" -> "Phase 1: Circuits"
      [] sec = "phase2" -> "Phase 2: Pit Stops"
      [] sec = "phase3" -> "Phase 3: Performance"
      [] sec = "phase4" -> "Phase 4: Qualifying"
      [] sec = "phase5" -> "Phase 5: Lap Analysis"

Navigated(sec) == dashboard_section \in {"Overview", NavigationOf(sec)}

OnlyMissing(n) ==
    /\ TableOf(n) = None
    /\ \A m \in FileNames \ {n} : TableOf(m) # None /\ TableOf(m) # NoEntry

HiddenOrPlaceholder(sec) == view[sec] = Blank \/ view[sec].body = Blank

\* what a phase section shows when all its inputs are loaded
FullSection(sec) ==
    CASE sec = "phase1" ->
            [map_data |-> map_data, top_circuits |-> top_circuits,
             races_by_country |-> races_by_country]
      [] sec = "phase2" ->
            [header |-> TRUE,
             body |-> IF Len(filtered_pit_stops) > 0 THEN Phase2Body ELSE Blank]
      [] sec = "phase3" ->
            [header |-> TRUE,
             body |-> IF Len(filtered_results) > 0 THEN Phase3Body ELSE Blank]
      [] sec = "phase4" ->
            [header |-> TRUE,
             body |-> IF Len(filtered_quali) > 0 /\ Len(filtered_results) > 0
                      THEN Phase4Body ELSE Blank]
      [] sec = "phase5" ->
            [header |-> TRUE,
             body |-> IF Len(filtered_laps) > 0 THEN Phase5Body ELSE Blank]

\* C3 as stated: for each optional input taken alone, when its loader returned
\* None the run ends without halting or raising, a warning about that input is
\* shown (whenever the section using it is navigated to), that section is
\* hidden or reduced to a placeholder, and every other navigated phase section
\* shows what it shows with all its inputs loaded.
C3_OptionalInputDegrades ==
    \A n \in OptionalInputs :
        (pc \in {"done", "stopped", "error"} /\ OnlyMissing(n)) =>
            /\ pc = "done"
            /\ Navigated(SectionOf(n)) =>
                  [kind |-> "warning", about |-> n] \in notices
            /\ HiddenOrPlaceholder(SectionOf(n))
            /\ \A sec \in {"phase1", "phase2", "phase3", "phase4", "phase5"} \ {SectionOf(n)} :
                  view[sec] = IF Navigated(sec) THEN FullSection(sec) ELSE Blank

\* C4: when qualifying.csv cannot be loaded, load_qualifying returns None and,
\* for every navigation choice and season selection, the Phase 4 section is
\* not rendered and the run raises no error.
C4_NoQualifyingNoPhase4 ==
    (pc # "load" /\ ~csv.qualifying.readable) =>
        /\ qualifying = None
        /\ view.phase4 = Blank
        /\ pc # "error"
        /\ \A m \in notices : m.kind # "exception"

\* a finished run, navigated to Phase 4 with both seasons selected, whose
\* qualifying table is None while every other table is loaded
C4_Witness ==
    /\ pc = "done"
    /\ OnlyMissing("qualifying")
    /\ dashboard_section = "Phase 4: Qualifying"
    /\ selected_years = {2021, 2022}
    /\ view.phase5 = Blank /\ view.footer # Blank

\* the rows of pit_stops of the selected races whose duration is usable
UsableStops ==
    {i \in DOMAIN pit_stops :
        /\ pit_stops[i].raceid \in filtered_races_ids
        /\ pit_stops[i].duration # NA
        /\ 0 < pit_stops[i].duration
        /\ pit_stops[i].duration < MaxDuration}

RECURSIVE SumOver(_, _)
SumOver(I, df) ==
    IF I = {} THEN 0
    ELSE LET i == CHOOSE j \in I : TRUE
         IN  df[i].duration + SumOver(I \ {i}, df)

\* C5: whenever the Phase 2 metrics are shown, 'Avg Pit Stop' is the mean and
\* 'Fastest Stop' the minimum over exactly the pit stops of the selected races
\* with 0 < duration < 300, and every row of 'Top 10 Fastest Pit Stops' is
\* such a pit stop: no row of duration 0, negative, missing or of 300 seconds
\* or more contributes.
C5_OutliersExcluded ==
    (view.phase2 # Blank /\ view.phase2.body # Blank) =>
        LET b == view.phase2.body IN
        /\ UsableStops # {}
        /\ b.avg_pit_stop = <<SumOver(UsableStops, pit_stops), Cardinality(UsableStops)>>
        /\ b.total_stops = Cardinality(UsableStops)
        /\ \A i \in UsableStops : b.fastest_stop <= pit_stops[i].duration
        /\ \E i \in UsableStops : b.fastest_stop = pit_stops[i].duration
        /\ Len(b.fastest) = Min(N, Cardinality(UsableStops))
        /\ \A k \in DOMAIN b.fastest :
              \E i \in UsableStops : b.fastest[k] = pit_stops[i]

\* Phase 2 metrics shown for a selection holding a usable pit stop and a pit
\* stop of 300 seconds, or of 0 seconds, that is left out
C5_Witness ==
    /\ pc = "done"
    /\ view.phase2 # Blank /\ view.phase2.body # Blank
    /\ \E i \in DOMAIN pit_stops :
          /\ pit_stops[i].raceid \in filtered_races_ids
          /\ pit_stops[i].duration \in {0, MaxDuration}
    /\ view.phase2.body.total_stops = 1

\* a is a worse metric value than b in a selection of the smallest
\* (ascending) or of the largest; a missing value is worse than any number
Worse(a, b, ascending) ==
    \/ a = NA /\ b # NA
    \/ /\ a # NA /\ b # NA
       /\ IF ascending THEN a > b ELSE a < b

\* C6: a top-N selection (sort descending and take 10, the 10 largest, the 10
\* smallest) returns rows of its input, each at most once, ordered by the
\* metric (descending for largest, ascending for smallest), none of them worse
\* than an omitted row, and exactly min(10, number of rows) of them.
C6_TopNOrderedAndComplete ==
    top.op # "none" =>
        LET df  == top.df
            out == top.out
            asc == top.op = "nsmallest"
        IN  /\ Len(out) = Min(N, Len(df))
            /\ \A i \in DOMAIN out : out[i] \in Range(df)
            /\ \A i, j \in DOMAIN out : i # j => out[i].id # out[j].id
            /\ \A i, j \in DOMAIN out :
                  i < j => ~Worse(out[i].metric, out[j].metric, asc)
            /\ \A r \in Range(df) \ Range(out) : \A o \in Range(out) :
                  ~Worse(o.metric, r.metric, asc)

\* the 10 largest of more than 10 rows, some of the larger value left out and
\* the input not already in order
C6_Witness ==
    /\ top.op = "nlargest"
    /\ Len(top.df) > N
    /\ Len(top.out) = N
    /\ top.df[1].metric = 1 /\ top.df[Len(top.df)].metric = 2
    /\ \A i \in DOMAIN top.out : top.out[i].metric = 2
    /\ \E i \in DOMAIN top.df : top.df[i].metric = 1

\* C7 as stated: every row that enters a merge has its join keys: races rows
\* entering the races-circuits merge a circuitid, result rows entering the
\* Phase 3 merges a raceid and a constructorid, qualifying and result rows
\* entering the Phase 4 merge a raceid and a driverid.
C7_JoinKeysPresentBeforeMerge ==
    /\ (races_with_circuits # NoEntry) =>
          \A i \in DOMAIN races : races[i].circuitid # NA
    /\ (view.phase3 # Blank /\ view.phase3.body # Blank) =>
          \A i \in DOMAIN filtered_results :
              /\ filtered_results[i].raceid # NA
              /\ filtered_results[i].constructorid # NA
    /\ (view.phase4 # Blank /\ view.phase4.body # Blank) =>
          /\ \A i \in DOMAIN filtered_quali :
                filtered_quali[i].raceid # NA /\ filtered_quali[i].driverid # NA
          /\ \A i \in DOMAIN filtered_results :
                filtered_results[i].raceid # NA /\ filtered_results[i].driverid # NA

\* C8 as stated: the sidebar offers, besides the season multiselect and the
\* navigation radio, a selection of countries by which the tables are narrowed.
C8_SidebarFiltersByCountry ==
    sidebar.controls # {} =>
        \E c \in sidebar.controls :
            c \notin {"Select Season(s):", "Navigate Dashboard:"}

\* the season of a race identifier (NA when no race has it)
YearOf(id) ==
    IF \E i \in DOMAIN races : races[i].raceid = id
    THEN races[CHOOSE i \in DOMAIN races : races[i].raceid = id].year
    ELSE NA
NameOfConstructor(id) ==
    IF \E i \in DOMAIN constructors : constructors[i].constructorid = id
    THEN constructors[CHOOSE i \in DOMAIN constructors :
                          constructors[i].constructorid = id].name
    ELSE NA

RECURSIVE SumOfSet(_, _)
SumOfSet(S, f) ==
    IF S = {} THEN 0
    ELSE LET x == CHOOSE y \in S : TRUE IN f[x] + SumOfSet(S \ {x}, f)

\* The aggregate of a full table per (key, season), then restricted to the
\* seasons S: key(i) and season(i) are the key and the season of row i, w(i)
\* what the row adds (1 for a count, its points for a sum).
RestrictedAggregate(rows, key, season, w, S) ==
    LET keys == {key[i] : i \in rows} \ {NA}
        perSeason(k, y) ==
            SumOfSet({i \in rows : key[i] = k /\ season[i] = y}, w)
        inS(k) == {i \in rows : key[i] = k /\ season[i] \in S}
    IN  {<<k, SumOfSet(S, [y \in S |-> perSeason(k, y)])>> :
            k \in {x \in keys : inS(x) # {}}}

Pairs(df, col, val) == {<<df[i][col], df[i][val]>> : i \in DOMAIN df}

AggregatesCommute(S) ==
    /\ view.phase1 # Blank =>
          LET rw == races_with_circuits
              I  == DOMAIN rw
              one == [i \in I |-> 1]
              yr == [i \in I |-> rw[i].year]
              perCircuit == RestrictedAggregate(I, [i \in I |-> rw[i].circuitid], yr, one, S)
          IN  /\ \A m \in Range(view.phase1.map_data) :
                    \/ <<m.circuitid, m.race_count>> \in perCircuit
                    \/ /\ m.race_count = 0
                       /\ \A p \in perCircuit : p[1] # m.circuitid
              /\ Pairs(view.phase1.top_circuits, "name_circuit", "races")
                    = RestrictedAggregate(I, [i \in I |-> rw[i].name_circuit], yr, one, S)
              /\ Pairs(view.phase1.races_by_country, "country", "races")
                    = RestrictedAggregate(I, [i \in I |-> rw[i].country], yr, one, S)
    /\ (view.phase2 # Blank /\ view.phase2.body # Blank) =>
          LET I == {i \in DOMAIN pit_stops :
                        /\ pit_stops[i].duration # NA
                        /\ 0 < pit_stops[i].duration
                        /\ pit_stops[i].duration < MaxDuration}
          IN  Pairs(view.phase2.body.stop_counts, "stop", "count")
                  = RestrictedAggregate(I, [i \in I |-> pit_stops[i].stop],
                                        [i \in I |-> YearOf(pit_stops[i].raceid)],
                                        [i \in I |-> 1], S)
    /\ (view.phase3 # Blank /\ view.phase3.body # Blank) =>
          LET I == DOMAIN results
          IN  Pairs(view.phase3.body.top_const, "name_constructor", "points")
                  = RestrictedAggregate(I,
                        [i \in I |-> NameOfConstructor(results[i].constructorid)],
                        [i \in I |-> YearOf(results[i].raceid)],
                        [i \in I |-> results[i].points], S)

\* C9 as stated: for every selection S of seasons, races per circuit, races
\* per country, pit stops per stop number and points per constructor, computed
\* from the season-filtered tables, equal the aggregates of the full tables
\* restricted to the rows whose season is in S.
C9_FilterAggregateCommute == AggregatesCommute(selected_years)

\* C9 amended: the same for every non-empty selection S; with no season
\* selected the aggregates are those of the full tables, over all seasons.
C9_FilterAggregateCommuteOrAll ==
    AggregatesCommute(IF selected_years = {} THEN Range(available_years)
                      ELSE selected_years)

\* the overview of a run that selected only 2022 of two seasons: races of
\* both seasons exist, the aggregates of Phases 1, 2 and 3 are all shown and
\* the 2021 races are not counted
C9_Witness ==
    /\ pc = "done"
    /\ selected_years = {2022}
    /\ Len(available_years) = 2
    /\ dashboard_section = "Overview"
    /\ view.phase2.body # Blank /\ view.phase3.body # Blank
    /\ view.phase1.races_by_country # <<>>
    /\ \A i \in DOMAIN view.phase1.races_by_country :
          view.phase1.races_by_country[i].races < Len(races)
    /\ view.phase3.body.top_const # <<>>

\* load_pit_stops, seen from outside: the coerced duration and milliseconds
\* of row i of the file, and the table the loader is to return
CoercedDuration(f, i) ==
    IF f.has_duration /\ f.rows[i].duration # Unparseable
    THEN f.rows[i].duration ELSE NA
DerivedDuration(f, i) ==
    IF f.has_milliseconds /\ f.rows[i].milliseconds \notin {Unparseable, NA}
    THEN f.rows[i].milliseconds \div 1000 ELSE NA
MostlyMissing(f) ==
    2 * Cardinality({i \in DOMAIN f.rows : CoercedDuration(f, i) = NA}) > Len(f.rows)
ExpectedStops(f, derive) ==
    SelectSeq([i \in DOMAIN f.rows |->
                 <<f.rows[i].lap,
                   IF derive THEN DerivedDuration(f, i) ELSE CoercedDuration(f, i)>>],
              LAMBDA p : p[2] # NA)
ReturnedStops == [i \in DOMAIN pit_stops |-> <<pit_stops[i].lap, pit_stops[i].duration>>]

\* C10 as stated: the durations are milliseconds/1000 exactly when the
\* duration column is absent or more than half of its cells are missing, the
\* coerced durations otherwise, and the returned table holds exactly the rows
\* whose resulting duration is not missing.
C10_DurationDerivedWhenMostlyMissing ==
    (pc = "check" /\ csv.pit_stops.readable) =>
        LET f == csv.pit_stops IN
        /\ pit_stops # None
        /\ ReturnedStops = ExpectedStops(f, ~f.has_duration \/ MostlyMissing(f))

\* C10 amended: the durations are milliseconds/1000 exactly when the file has
\* a milliseconds column and its duration column is absent or more than half
\* missing; with neither column the loader returns None; otherwise as stated.
C10_DurationDerivedWhenMillisecondsPresent ==
    (pc = "check" /\ csv.pit_stops.readable) =>
        LET f == csv.pit_stops IN
        IF ~f.has_duration /\ ~f.has_milliseconds
        THEN pit_stops = None
        ELSE /\ pit_stops # None
             /\ ReturnedStops =
                    ExpectedStops(f, f.has_milliseconds
                                     /\ (~f.has_duration \/ MostlyMissing(f)))

\* a file with both columns, two of three durations unparseable: the loader
\* derived the durations, dropping the row whose milliseconds are unparseable
\* although its own duration was a number
C10_Witness ==
    /\ pc = "check"
    /\ csv.pit_stops.readable
    /\ csv.pit_stops.has_duration /\ csv.pit_stops.has_milliseconds
    /\ Len(csv.pit_stops.rows) = 3
    /\ MostlyMissing(csv.pit_stops)
    /\ csv.pit_stops.rows[1].duration = 2
    /\ csv.pit_stops.rows[1].milliseconds = Unparseable
    /\ pit_stops # None /\ Len(pit_stops) = 2
    /\ \A i \in DOMAIN pit_stops : pit_stops[i].duration = 3

(***************************************************************************)
(* C11: loaded tables are never written by a view computation              *)
(***************************************************************************)
\* what the loader of a file returns for the files of this session
AsLoaded(n) ==
    CASE n = "circuits" -> load_circuits(csv.circuits)
      [] n = "races" -> load_races(csv.races)
      [] n = "pit_stops" -> load_pit_stops(csv.pit_stops)
      [] n = "constructors" -> load_constructors(csv.constructors)
      [] n = "results" -> load_results(csv.results)
      [] n = "qualifying" -> load_qualifying(csv.qualifying)
      [] n = "drivers" -> load_drivers(csv.drivers)
      [] n = "lap_times" -> load_lap_times(csv.lap_times)

\* C11: once the tables of a run are loaded, at every later position of the
\* run and in every later run (after any season selections and navigation
\* choices), each of the eight loaded tables has exactly the rows, columns
\* and values its loader returned, and so has its cached copy: no view
\* computation adds a column to, or changes a value of, a loaded table.
C11_LoadedTablesNeverWritten ==
    pc # "load" =>
        \A n \in FileNames :
            /\ TableOf(n) = AsLoaded(n)
            /\ cache[n] = AsLoaded(n)

\* a re-run after an interaction that selected both seasons has finished,
\* with the map (race_count added to map_data), the Phase 4 metrics
\* (position_change added to quali_race) and the Phase 5 metrics
\* (time_seconds added to filtered_laps) all computed from non-empty tables
C11_Witness ==
    /\ pc = "done"
    /\ session.touched
    /\ selected_years = Years
    /\ dashboard_section = "Overview"
    /\ view.phase1 # Blank /\ Len(view.phase1.map_data) > 0
    /\ view.phase4 # Blank /\ view.phase4.body # Blank
    /\ view.phase5 # Blank /\ view.phase5.body # Blank
    /\ Len(circuits) > 0 /\ Len(qualifying) > 0 /\ Len(lap_times) > 0

(***************************************************************************)
(* C12: the Phase 4 metrics and missing position changes                   *)
(***************************************************************************)
\* the guard of line 369 passed in this run: Best Gain and Worst Loss are
\* computed
Phase4MetricsComputed ==
    /\ view.phase4 # Blank
    /\ Len(filtered_quali) > 0
    /\ Len(filtered_results) > 0

\* C12: whenever the Phase 4 metrics are computed (qualifying and results
\* loaded and both non-empty after the season filter), quali_race has a row
\* with a non-missing position_change, and the run never ends in the
\* exception int() raises on a missing maximum or minimum.
C12_Phase4NeverRaisesOnMissing ==
    /\ [kind |-> "exception", about |-> "phase4"] \notin notices
    /\ Phase4MetricsComputed =>
           \E i \in DOMAIN quali_race : notna(quali_race[i].position_change)

(***************************************************************************)
(* C13: the divisor of the Stops/Race metric                               *)
(***************************************************************************)
\* Phase 2 was entered in this run and its metrics are computed (line 273)
Phase2MetricsComputed ==
    /\ view.phase2 # Blank
    /\ Len(filtered_pit_stops) > 0

\* C13: in every run in which the Stops/Race metric is computed
\* (filtered_pit_stops non-empty), filtered_races_ids holds at least one
\* race identifier and the division of line 281 is carried out; this for
\* every season selection, the empty one included, and with a races table
\* without a raceid column, for which the metric is never computed.
C13_StopsPerRaceNeverDividesByZero ==
    /\ [kind |-> "exception", about |-> "phase2"] \notin notices
    /\ Phase2MetricsComputed =>
           /\ Cardinality(filtered_races_ids) >= 1
           /\ raceid_in_columns
           /\ view.phase2.body # Blank
           /\ view.phase2.body.stops_per_race[1] = Len(filtered_pit_stops)
           /\ view.phase2.body.stops_per_race[2] >= 1

\* the user emptied the season selection and the re-run computed Stops/Race
\* over the pit stops of all races
C13_Witness ==
    /\ pc = "done"
    /\ session.touched
    /\ selected_years = {}
    /\ Phase2MetricsComputed
    /\ view.phase2.body # Blank
    /\ view.phase2.body.stops_per_race[2] = Cardinality(unique(races, "raceid"))
    /\ view.phase2.body.stops_per_race[2] >= 2

====
